---- MODULE Spec2Model ----
(***************************************************************************)
(* Model of TennisScheduler (src/tennis_scheduler.py, lines 296-541): the  *)
(* three scheduling modes (time-budgeted, round robin, single round) and   *)
(* the helpers they call.  A team is an opaque identifier; the code only   *)
(* ever compares teams for equality, so identifiers are small integers and *)
(* a roster is a sequence of distinct identifiers.  A match is a Python    *)
(* tuple (team1, team2), modelled as a sequence of length 2.               *)
(***************************************************************************)
EXTENDS Integers, Sequences, FiniteSets, TLC

(***************************************************************************)
(* Bounds of the model.                                                    *)
(***************************************************************************)
MaxTeams == 5
MaxCourts == 3
MaxPlayers == 6
MaxMinutes == 100
\* Pools of at most this many pairs are shuffled into every permutation;
\* longer pools into the rotations of the pool and of its reversal.
MaxShuffleLen == 6
\* total_duration_minutes is drawn from the integers in
\* -minutes_per_round..MaxMinutes with these remainders modulo 20
DurationResidues == {0, 1, 15, 19}
\* calls of the statistics functions made on a returned schedule
MaxStatsCalls == 2
\* the time-budgeted mode alone (SpecTime) is explored on larger inputs
MaxTimeTeams == 8
MaxTimeCourts == 4
\* participation counts handed to a direct call of create_optimal_time_round
MaxCount == 2
\* scheduling calls made one after the other on one scheduler object
MaxCalls == 3
\* calls of update_match_result made on a tournament
MaxUpdates == 2

(***************************************************************************)
(* Program constants.                                                      *)
(***************************************************************************)
minutes_per_round == 20
play_minutes == 15
stats_minutes_per_round == 20
\* the winner recorded for a draw ('Draw'); teams are numbered from 1
Draw == 0
\* the winner of a match without a result (NULL)
NoWinner == -1

VARIABLES
    teams,              \* self.teams: the roster
    num_courts,         \* self.num_courts = self.matches_per_round
    players_per_team,   \* self.players_per_team
    op,                 \* "idle" | "time" | "rr" | "done": the call in progress
    mode,               \* "none" | "time" | "rr" | "single": the last call made
    round_num,          \* loop variable of the schedule loops
    total_duration,     \* argument of create_time_based_schedule
    schedule,           \* local schedule, then the returned schedule
    team_game_counts,   \* local Counter of create_time_based_schedule
    remaining_matches,  \* local pool of create_round_robin_schedule
    rounds_needed,      \* local of create_round_robin_schedule
    single_round,       \* list returned by create_single_round_distribution
    stats,              \* the statistics last returned
    stats_calls,        \* statistics calls made by the caller after the return
    calls,              \* scheduling calls that have returned to the caller
    returned,           \* what the first call with each argument returned
    time_round,         \* list returned by a call of create_optimal_time_round
    db_matches,         \* rows of the table matches, by id
    db_team_stats       \* rows of the table team_stats, by team_name

vars == <<teams, num_courts, players_per_team, op, mode, round_num,
          total_duration, schedule, team_game_counts, remaining_matches,
          rounds_needed, single_round, stats, stats_calls, calls, returned,
          time_round, db_matches, db_team_stats>>

config == <<teams, num_courts, players_per_team>>

\* what no method of TennisScheduler reads or writes: the caller's record of
\* the calls it made, and the tables of TennisDatabase
aside == <<calls, returned, time_round, db_matches, db_team_stats>>

(***************************************************************************)
(* Generic helpers on sequences.                                           *)
(***************************************************************************)
Range(s) == {s[i] : i \in 1..Len(s)}

Contains(s, x) == \E i \in 1..Len(s) : s[i] = x

Reverse(s) == [i \in 1..Len(s) |-> s[Len(s) + 1 - i]]

Rotate(s, k) == [i \in 1..Len(s) |-> s[((i + k - 1) % Len(s)) + 1]]

\* mutant of Prefix: the slice is one element short
PrefixShort(s, n) == IF n - 1 >= Len(s) THEN s ELSE SubSeq(s, 1, n - 1)

\* s[:n] for n >= 0
Prefix(s, n) == IF n >= Len(s) THEN s ELSE SubSeq(s, 1, n)

\* list.remove(x): deletes the first occurrence of x
RemoveFirst(s, x) ==
    LET i == CHOOSE k \in 1..Len(s) : s[k] = x /\ \A j \in 1..(k - 1) : s[j] # x
    IN SubSeq(s, 1, i - 1) \o SubSeq(s, i + 1, Len(s))

\* mutant of InsertByKey: the order is descending
RECURSIVE InsertByKeyDescending(_, _, _)
InsertByKeyDescending(sorted, x, key) ==
    IF sorted = <<>> THEN <<x>>
    ELSE IF key[Head(sorted)] >= key[x]
         THEN <<Head(sorted)>> \o InsertByKeyDescending(Tail(sorted), x, key)
         ELSE <<x>> \o sorted

\* sorted(seq, key=...) / list.sort(key=...): Python's sort is stable.
\* key is a function from the elements to their sort keys; x is inserted
\* behind every element whose key is <= key[x].
RECURSIVE InsertByKey(_, _, _)
InsertByKey(sorted, x, key) ==
    IF sorted = <<>> THEN <<x>>
    ELSE IF key[Head(sorted)] <= key[x]
         THEN <<Head(sorted)>> \o InsertByKey(Tail(sorted), x, key)
         ELSE <<x>> \o sorted

RECURSIVE StableSortFrom(_, _, _, _)
StableSortFrom(s, i, acc, key) ==
    IF i > Len(s) THEN acc
    ELSE StableSortFrom(s, i + 1, InsertByKey(acc, s[i], key), key)

StableSort(s, key) == StableSortFrom(s, 1, <<>>, key)

\* mutant of FloorDiv: the quotient is rounded up
RoundUpDiv(a, b) == IF a >= 0 THEN (a + b - 1) \div b ELSE -((-a) \div b)

\* Python's floor division by a positive divisor
FloorDiv(a, b) == IF a >= 0 THEN a \div b ELSE -((-a + b - 1) \div b)

\* mutant of CeilDiv: the quotient is rounded down
TruncDiv(a, b) == a \div b

\* math.ceil(a / b) for a >= 0, b > 0
CeilDiv(a, b) == (a + b - 1) \div b

(***************************************************************************)
(* TennisScheduler.__init__                                                *)
(***************************************************************************)
num_teams == Len(teams)

matches_per_round == num_courts

SimultaneousCap(ppt) == ppt \div 2

max_simultaneous_matches_per_team == SimultaneousCap(players_per_team)

(***************************************************************************)
(* generate_all_possible_matches: itertools.combinations(self.teams, 2)    *)
(* yields the tuples (teams[i], teams[j]), i < j, in lexicographic order   *)
(* of the positions.                                                       *)
(***************************************************************************)
\* mutant of CombinationsFrom: the second position is one too low
RECURSIVE CombinationsWithSelf(_, _, _)
CombinationsWithSelf(ts, i, j) ==
    IF i > Len(ts) THEN <<>>
    ELSE IF j > Len(ts) THEN CombinationsWithSelf(ts, i + 1, i + 2)
    ELSE <<(<<ts[i], ts[j - 1]>>)>> \o CombinationsWithSelf(ts, i, j + 1)

RECURSIVE CombinationsFrom(_, _, _)
CombinationsFrom(ts, i, j) ==
    IF i >= Len(ts) THEN <<>>
    ELSE IF j > Len(ts) THEN CombinationsFrom(ts, i + 1, i + 2)
    ELSE <<(<<ts[i], ts[j]>>)>> \o CombinationsFrom(ts, i, j + 1)

\* mutant of Combinations2: the pairs are enumerated from the last to the first
CombinationsBackwards(ts) == Reverse(CombinationsFrom(ts, 1, 2))

Combinations2(ts) == CombinationsFrom(ts, 1, 2)

generate_all_possible_matches == Combinations2(teams)

(***************************************************************************)
(* Counter objects over the roster: a missing key reads as 0.              *)
(***************************************************************************)
ZeroCounter == [t \in Range(teams) |-> 0]

Incr(counter, t) == [counter EXCEPT ![t] = @ + 1]

\* mutant of CountMatch: only the first team of the match is counted
CountFirstTeam(counter, match) == Incr(counter, match[1])

\* counter[team1] += 1; counter[team2] += 1
CountMatch(counter, match) == Incr(Incr(counter, match[1]), match[2])

RECURSIVE CountMatches(_, _)
CountMatches(counter, matches) ==
    IF matches = <<>> THEN counter
    ELSE CountMatches(CountMatch(counter, Head(matches)), Tail(matches))

(***************************************************************************)
(* create_optimal_time_round, lines 345-353: the candidate list.           *)
(***************************************************************************)
\* lines 348-351: the double loop over teams_by_count; k enumerates the
\* (team1, team2) iterations in order, acc is possible_matches so far
RECURSIVE PossibleMatchesFrom(_, _, _)
PossibleMatchesFrom(tbc, k, acc) ==
    LET n == Len(tbc)
        team1 == tbc[(k \div n) + 1]
        team2 == tbc[(k % n) + 1]
    IN IF k >= n * n THEN acc
       ELSE IF /\ team1 # team2
               /\ ~Contains(acc, <<team1, team2>>)
               /\ ~Contains(acc, <<team2, team1>>)
            THEN PossibleMatchesFrom(tbc, k + 1, Append(acc, <<team1, team2>>))
            ELSE PossibleMatchesFrom(tbc, k + 1, acc)

\* mutant of CombinedKey: the most played pairs are offered first
NegatedKey(ms, current_counts) ==
    [m \in Range(ms) |-> 0 - (current_counts[m[1]] + current_counts[m[2]])]

\* line 353: the sort key of possible_matches
CombinedKey(ms, current_counts) ==
    [m \in Range(ms) |-> current_counts[m[1]] + current_counts[m[2]]]

\* mutant of PossibleMatches: the roster order is used as it is, the
\* participation counts are not looked at
RosterOrderMatches(current_counts) == PossibleMatchesFrom(teams, 0, <<>>)

\* lines 345-353
PossibleMatches(current_counts) ==
    LET unsorted == PossibleMatchesFrom(StableSort(teams, current_counts), 0, <<>>)
    IN StableSort(unsorted, CombinedKey(unsorted, current_counts))

(***************************************************************************)
(* create_optimal_time_round, lines 355-366: greedy acceptance.  The loop  *)
(* state is [matches, used]: round_matches and team_matches_this_round.    *)
(***************************************************************************)
\* mutant of CapAccepts: the within-round usage is not looked at
UncappedAccepts(used, match, cap) == TRUE

\* mutant of CapAccepts: a team is refused one match before its cap
CapAcceptsEarly(used, match, cap) ==
    used[match[1]] + 1 < cap /\ used[match[2]] + 1 < cap

\* lines 361-362 and 389-390
CapAccepts(used, match, cap) == used[match[1]] < cap /\ used[match[2]] < cap

RECURSIVE GreedyTimeLoop(_, _, _)
GreedyTimeLoop(possible, i, st) ==
    IF i > Len(possible) \/ Len(st.matches) >= num_courts THEN st
    ELSE IF CapAccepts(st.used, possible[i], max_simultaneous_matches_per_team)
         THEN GreedyTimeLoop(possible, i + 1,
                  [matches |-> Append(st.matches, possible[i]),
                   used |-> CountMatch(st.used, possible[i])])
         ELSE GreedyTimeLoop(possible, i + 1, st)

(***************************************************************************)
(* fill_remaining_time_courts, lines 375-396                               *)
(***************************************************************************)
RECURSIVE FillTimeLoop(_, _, _)
FillTimeLoop(possible, i, st) ==
    IF i > Len(possible) \/ Len(st.matches) >= num_courts THEN st
    ELSE IF /\ ~Contains(st.matches, possible[i])
            /\ CapAccepts(st.used, possible[i], max_simultaneous_matches_per_team)
         THEN FillTimeLoop(possible, i + 1,
                  [matches |-> Append(st.matches, possible[i]),
                   used |-> CountMatch(st.used, possible[i])])
         ELSE FillTimeLoop(possible, i + 1, st)

\* mutant of fill_remaining_time_courts: the cap is not tested, any match
\* that is not yet in the round is added
RECURSIVE FillAnyLoop(_, _, _)
FillAnyLoop(possible, i, matches) ==
    IF i > Len(possible) \/ Len(matches) >= num_courts THEN matches
    ELSE IF ~Contains(matches, possible[i])
         THEN FillAnyLoop(possible, i + 1, Append(matches, possible[i]))
         ELSE FillAnyLoop(possible, i + 1, matches)

fill_ignoring_cap(possible, st) ==
    IF num_courts - Len(st.matches) <= 0 THEN st.matches
    ELSE FillAnyLoop(possible, 1, st.matches)

fill_remaining_time_courts(possible, st) ==
    IF num_courts - Len(st.matches) <= 0 THEN st.matches
    ELSE FillTimeLoop(possible, 1, st).matches

(***************************************************************************)
(* create_optimal_time_round, lines 340-373                                *)
(***************************************************************************)
create_optimal_time_round(current_counts) ==
    LET possible == PossibleMatches(current_counts)
        st == GreedyTimeLoop(possible, 1, [matches |-> <<>>, used |-> ZeroCounter])
    IN IF Len(st.matches) < num_courts
       THEN fill_remaining_time_courts(possible, st)
       ELSE st.matches

(***************************************************************************)
(* get_time_based_stats, lines 398-417.  A float quotient a / b is kept    *)
(* as the exact fraction <<a, b>>; "x if cond else 0" gives <<0, 1>>.      *)
(***************************************************************************)
RECURSIVE TotalMatches(_)
TotalMatches(sched) ==
    IF sched = <<>> THEN 0
    ELSE Len(Head(sched).matches) + TotalMatches(Tail(sched))

RECURSIVE SumOver(_, _)
SumOver(counter, keys) ==
    IF keys = {} THEN 0
    ELSE LET t == CHOOSE x \in keys : TRUE
         IN counter[t] + SumOver(counter, keys \ {t})

\* sum(counter.values())
SumValues(counter) == SumOver(counter, DOMAIN counter)

MinValue(counter) ==
    IF DOMAIN counter = {} THEN 0
    ELSE CHOOSE v \in {counter[t] : t \in DOMAIN counter} :
             \A t \in DOMAIN counter : v <= counter[t]

MaxValue(counter) ==
    IF DOMAIN counter = {} THEN 0
    ELSE CHOOSE v \in {counter[t] : t \in DOMAIN counter} :
             \A t \in DOMAIN counter : v >= counter[t]

Fraction(a, b) == <<a, b>>

ZeroFraction == <<0, 1>>

get_time_based_stats(sched, team_counts, total) ==
    [total_rounds |-> Len(sched),
     total_matches |-> TotalMatches(sched),
     planned_duration |-> total,
     actual_duration |-> Len(sched) * stats_minutes_per_round,
     efficiency |-> IF total > 0
                    THEN Fraction(Len(sched) * stats_minutes_per_round * 100, total)
                    ELSE ZeroFraction,
     team_counts |-> team_counts,
     avg_games_per_team |-> IF teams # <<>>
                            THEN Fraction(SumValues(team_counts), Len(teams))
                            ELSE ZeroFraction,
     min_games |-> MinValue(team_counts),
     max_games |-> MaxValue(team_counts),
     games_difference |-> MaxValue(team_counts) - MinValue(team_counts),
     court_utilization |-> IF Len(sched) > 0
                           THEN Fraction(TotalMatches(sched) * 100,
                                         Len(sched) * num_courts)
                           ELSE ZeroFraction]

(***************************************************************************)
(* get_team_participation_stats, lines 520-541.  The schedule is a list of *)
(* rounds, each a list of matches; team_count is a fresh Counter that      *)
(* holds a key only for the teams met in some match.                       *)
(***************************************************************************)
\* team_count[t] += 1 on a Counter that may not hold t yet
IncrOrInsert(counter, t) ==
    IF t \in DOMAIN counter THEN [counter EXCEPT ![t] = @ + 1]
    ELSE (t :> 1) @@ counter

\* lines 526-530, for one round
RECURSIVE CountRound(_, _)
CountRound(counter, round) ==
    IF round = <<>> THEN counter
    ELSE CountRound(IncrOrInsert(IncrOrInsert(counter, Head(round)[1]),
                                 Head(round)[2]),
                    Tail(round))

\* lines 525-530: the state is [team_count, match_count]
RECURSIVE CountSchedule(_, _)
CountSchedule(st, sched) ==
    IF sched = <<>> THEN st
    ELSE CountSchedule([team_count |-> CountRound(st.team_count, Head(sched)),
                        match_count |-> st.match_count + Len(Head(sched))],
                       Tail(sched))

\* lines 532-541
ParticipationStatsOf(st) ==
    [total_matches |-> st.match_count,
     team_counts |-> st.team_count,
     avg_games_per_team |-> IF teams # <<>>
                            THEN Fraction(SumValues(st.team_count), Len(teams))
                            ELSE ZeroFraction,
     min_games |-> MinValue(st.team_count),
     max_games |-> MaxValue(st.team_count),
     games_difference |-> MaxValue(st.team_count) - MinValue(st.team_count)]

\* mutant of get_team_participation_stats: team_count is not a fresh
\* Counter but the one left by the previous call
participation_stats_kept_counter(sched) ==
    ParticipationStatsOf(CountSchedule(
        [team_count |-> IF "team_counts" \in DOMAIN stats
                        THEN stats.team_counts ELSE <<>>,
         match_count |-> 0], sched))

get_team_participation_stats(sched) ==
    ParticipationStatsOf(CountSchedule([team_count |-> <<>>, match_count |-> 0], sched))

(***************************************************************************)
(* create_optimal_round, lines 440-451: first pass, every team at most     *)
(* once.  The loop state is [matches, used]: round_matches and the set     *)
(* used_teams_this_round.                                                  *)
(***************************************************************************)
RECURSIVE FirstPassLoop(_, _, _)
FirstPassLoop(available, i, st) ==
    IF i > Len(available) THEN st
    ELSE LET team1 == available[i][1]
             team2 == available[i][2]
         IN IF /\ team1 \notin st.used
               /\ team2 \notin st.used
               /\ Len(st.matches) < matches_per_round
            THEN FirstPassLoop(available, i + 1,
                     [matches |-> Append(st.matches, available[i]),
                      used |-> st.used \cup {team1, team2}])
            ELSE FirstPassLoop(available, i + 1, st)

(***************************************************************************)
(* fill_remaining_courts, lines 460-489                                    *)
(***************************************************************************)
\* lines 471-475: the dict current_opponents; a later match overwrites
RECURSIVE CurrentOpponents(_)
CurrentOpponents(current) ==
    IF current = <<>> THEN <<>>
    ELSE LET last == current[Len(current)]
             init == SubSeq(current, 1, Len(current) - 1)
         IN (last[2] :> last[1]) @@ (last[1] :> last[2]) @@ CurrentOpponents(init)

\* mutant of CanDouble: a match already in the round may be added again
CanAlwaysDouble(match, current) == TRUE

\* lines 470-483
CanDouble(match, current) ==
    LET opp == CurrentOpponents(current)
        team1 == match[1]
        team2 == match[2]
    IN /\ ~Contains(current, match)
       /\ ~(team1 \in DOMAIN opp /\ opp[team1] = team2)
       /\ ~(team2 \in DOMAIN opp /\ opp[team2] = team1)

RECURSIVE AvailableForDoubles(_, _, _)
AvailableForDoubles(available, i, current) ==
    IF i > Len(available) THEN <<>>
    ELSE (IF CanDouble(available[i], current) THEN <<available[i]>> ELSE <<>>)
         \o AvailableForDoubles(available, i + 1, current)

\* mutant of fill_remaining_courts: every candidate is added, not only
\* the first remaining_slots
fill_without_limit(available, current) ==
    IF matches_per_round - Len(current) <= 0 THEN current
    ELSE current \o AvailableForDoubles(available, 1, current)

fill_remaining_courts(available, current) ==
    LET remaining_slots == matches_per_round - Len(current)
    IN IF remaining_slots <= 0 THEN current
       ELSE current \o Prefix(AvailableForDoubles(available, 1, current),
                              remaining_slots)

(***************************************************************************)
(* create_optimal_round, lines 440-458                                     *)
(***************************************************************************)
\* mutant of create_optimal_round: the fill pass is left out
first_pass_only(available) ==
    FirstPassLoop(available, 1, [matches |-> <<>>, used |-> {}]).matches

create_optimal_round(available) ==
    LET st == FirstPassLoop(available, 1, [matches |-> <<>>, used |-> {}])
    IN IF Len(st.matches) < matches_per_round
       THEN fill_remaining_courts(available, st.matches)
       ELSE st.matches

\* mutant of RemoveScheduled: the pool is left as it was
KeepScheduled(remaining, round_matches) == remaining

\* create_round_robin_schedule, lines 434-436
RECURSIVE RemoveScheduled(_, _)
RemoveScheduled(remaining, round_matches) ==
    IF round_matches = <<>> THEN remaining
    ELSE RemoveScheduled(
             IF Contains(remaining, Head(round_matches))
             THEN RemoveFirst(remaining, Head(round_matches))
             ELSE remaining,
             Tail(round_matches))

\* random.shuffle(remaining_matches), line 428: the orders the model draws
Shuffles(pool) ==
    LET n == Len(pool)
    IN IF n <= MaxShuffleLen
       THEN {[i \in 1..n |-> pool[p[i]]] : p \in Permutations(1..n)}
       ELSE {Rotate(pool, k) : k \in 0..(n - 1)}
            \cup {Rotate(Reverse(pool), k) : k \in 0..(n - 1)}

(***************************************************************************)
(* create_single_round_distribution, lines 491-518                         *)
(***************************************************************************)
\* lines 499-502: pop two teams at a time
\* mutant of AdjacentPairs: only one team is popped per match
RECURSIVE OverlappingPairs(_, _)
OverlappingPairs(available_teams, matches) ==
    IF Len(available_teams) >= 2 /\ Len(matches) < matches_per_round
    THEN OverlappingPairs(Tail(available_teams),
                          Append(matches, <<available_teams[1], available_teams[2]>>))
    ELSE matches

RECURSIVE AdjacentPairs(_, _)
AdjacentPairs(available_teams, matches) ==
    IF Len(available_teams) >= 2 /\ Len(matches) < matches_per_round
    THEN AdjacentPairs(Tail(Tail(available_teams)),
                       Append(matches, <<available_teams[1], available_teams[2]>>))
    ELSE matches

\* lines 512-516: supplement from the full combination list
RECURSIVE SupplementLoop(_, _, _)
SupplementLoop(all_possible, i, matches) ==
    IF i > Len(all_possible) \/ Len(matches) >= matches_per_round THEN matches
    ELSE IF ~Contains(matches, all_possible[i])
         THEN SupplementLoop(all_possible, i + 1, Append(matches, all_possible[i]))
         ELSE SupplementLoop(all_possible, i + 1, matches)

create_single_round_distribution ==
    IF num_teams < 2 THEN <<>>
    ELSE LET matches == AdjacentPairs(teams, <<>>)
         IN IF Len(matches) < matches_per_round /\ Len(teams) >= 2
            THEN SupplementLoop(Combinations2(teams), 1, matches)
            ELSE matches

(***************************************************************************)
(* The state machine.  A scheduler is constructed (Init) and one of its     *)
(* three entry points is called; the two loops over the rounds advance one *)
(* round per step.  Every call starts from fresh locals, so a behaviour is *)
(* one call from its entry to its return.                                  *)
(***************************************************************************)
Rosters ==
    UNION {{[i \in 1..n |-> i], [i \in 1..n |-> n + 1 - i]} : n \in 0..MaxTeams}

Durations ==
    {m \in (-minutes_per_round)..MaxMinutes : (m % minutes_per_round) \in DurationResidues}

NoStats == [unset |-> TRUE]

ErrorStats == [error |-> "Zu wenig Zeit fuer mindestens eine Runde"]

\* mutant of max_rounds: the loop runs one round more
max_rounds_long == FloorDiv(total_duration, minutes_per_round) + 1

\* mutant of max_rounds: the loop stops one round early
max_rounds_short == FloorDiv(total_duration, minutes_per_round) - 1

\* line 314
max_rounds == FloorDiv(total_duration, minutes_per_round)

Init ==
    /\ teams \in Rosters
    /\ num_courts \in 1..MaxCourts
    /\ players_per_team \in 1..MaxPlayers
    /\ op = "idle"
    /\ mode = "none"
    /\ round_num = 0
    /\ total_duration = 0
    /\ schedule = <<>>
    /\ team_game_counts = <<>>
    /\ remaining_matches = <<>>
    /\ rounds_needed = 0
    /\ single_round = <<>>
    /\ stats = NoStats
    /\ stats_calls = 0
    /\ calls = 0
    /\ returned = <<>>
    /\ time_round = <<>>
    /\ db_matches = <<>>
    /\ db_team_stats = <<>>

Callable == op = "idle"

\* create_time_based_schedule, lines 311-320: entry, the early return
CreateTimeBasedSchedule(total_duration_minutes) ==
    /\ Callable
    /\ mode' = "time"
    /\ total_duration' = total_duration_minutes
    /\ schedule' = <<>>
    /\ remaining_matches' = <<>>
    /\ rounds_needed' = 0
    /\ single_round' = <<>>
    /\ IF FloorDiv(total_duration_minutes, minutes_per_round) = 0
       THEN /\ op' = "done"
            /\ stats' = ErrorStats
            /\ round_num' = 0
            /\ team_game_counts' = <<>>
       ELSE /\ op' = "time"
            /\ stats' = NoStats
            /\ round_num' = 1
            /\ team_game_counts' = ZeroCounter
    /\ UNCHANGED aside
    /\ UNCHANGED <<config, stats_calls>>

\* create_time_based_schedule, lines 322-334: one iteration of the loop
TimeRound ==
    /\ op = "time"
    /\ round_num <= max_rounds
    /\ LET round_matches == create_optimal_time_round(team_game_counts)
       IN /\ schedule' = Append(schedule,
                 [round |-> round_num,
                  matches |-> round_matches,
                  start_time |-> (round_num - 1) * minutes_per_round,
                  end_time |-> (round_num - 1) * minutes_per_round + play_minutes])
          /\ team_game_counts' = CountMatches(team_game_counts, round_matches)
    /\ round_num' = round_num + 1
    /\ UNCHANGED aside
    /\ UNCHANGED <<config, op, mode, total_duration, remaining_matches,
                   rounds_needed, single_round, stats, stats_calls>>

\* create_time_based_schedule, lines 336-338: the loop is over
TimeReturn ==
    /\ op = "time"
    /\ round_num > max_rounds
    /\ stats' = get_time_based_stats(schedule, team_game_counts, total_duration)
    /\ op' = "done"
    /\ UNCHANGED aside
    /\ UNCHANGED <<config, mode, round_num, total_duration, schedule,
                   team_game_counts, remaining_matches, rounds_needed,
                   single_round, stats_calls>>

\* create_round_robin_schedule, lines 419-428: entry and shuffle
CreateRoundRobinSchedule ==
    /\ Callable
    /\ mode' = "rr"
    /\ op' = "rr"
    /\ LET all_matches == generate_all_possible_matches
       IN /\ rounds_needed' = CeilDiv(Len(all_matches), matches_per_round)
          /\ remaining_matches' \in Shuffles(all_matches)
    /\ schedule' = <<>>
    /\ round_num' = 1
    /\ total_duration' = 0
    /\ team_game_counts' = <<>>
    /\ single_round' = <<>>
    /\ stats' = NoStats
    /\ UNCHANGED aside
    /\ UNCHANGED <<config, stats_calls>>

\* create_round_robin_schedule, lines 430-436: one iteration of the loop
RoundRobinRound ==
    /\ op = "rr"
    /\ round_num <= rounds_needed
    /\ LET round_matches == create_optimal_round(remaining_matches)
       IN /\ schedule' = Append(schedule, round_matches)
          /\ remaining_matches' = RemoveScheduled(remaining_matches, round_matches)
    /\ round_num' = round_num + 1
    /\ UNCHANGED aside
    /\ UNCHANGED <<config, op, mode, total_duration, team_game_counts,
                   rounds_needed, single_round, stats, stats_calls>>

\* create_round_robin_schedule, line 438
RoundRobinReturn ==
    /\ op = "rr"
    /\ round_num > rounds_needed
    /\ op' = "done"
    /\ UNCHANGED aside
    /\ UNCHANGED <<config, mode, round_num, total_duration, schedule,
                   team_game_counts, remaining_matches, rounds_needed,
                   single_round, stats, stats_calls>>

\* mutant of CreateSingleRoundDistribution: available_teams is self.teams
\* itself, not a copy, so the pops of lines 500-501 shorten the roster
CreateSingleRoundDistributionOnRoster ==
    /\ Callable
    /\ mode' = "single"
    /\ op' = "done"
    /\ single_round' = create_single_round_distribution
    /\ teams' = SubSeq(teams, 2 * Len(AdjacentPairs(teams, <<>>)) + 1, Len(teams))
    /\ schedule' = <<>>
    /\ round_num' = 0
    /\ total_duration' = 0
    /\ team_game_counts' = <<>>
    /\ remaining_matches' = <<>>
    /\ rounds_needed' = 0
    /\ stats' = NoStats
    /\ UNCHANGED aside
    /\ UNCHANGED <<num_courts, players_per_team, stats_calls>>

\* create_single_round_distribution, lines 491-518
CreateSingleRoundDistribution ==
    /\ Callable
    /\ mode' = "single"
    /\ op' = "done"
    /\ single_round' = create_single_round_distribution
    /\ schedule' = <<>>
    /\ round_num' = 0
    /\ total_duration' = 0
    /\ team_game_counts' = <<>>
    /\ remaining_matches' = <<>>
    /\ rounds_needed' = 0
    /\ stats' = NoStats
    /\ UNCHANGED aside
    /\ UNCHANGED <<config, stats_calls>>

\* create_new_tournament, line 987: the number of matches the form
\* announces for a single round
max_matches_single ==
    IF num_courts <= Len(teams) \div 2 THEN num_courts ELSE Len(teams) \div 2

\* the schedule a caller holds after a round-robin or single-round call
\* (create_new_tournament, line 1098: schedule = [matches])
ReturnedRounds == IF mode = "single" THEN <<single_round>> ELSE schedule

\* a caller computes get_team_participation_stats on the returned schedule
GetTeamParticipationStats ==
    /\ op = "done"
    /\ mode \in {"rr", "single"}
    /\ stats_calls < MaxStatsCalls
    /\ stats' = get_team_participation_stats(ReturnedRounds)
    /\ stats_calls' = stats_calls + 1
    /\ UNCHANGED aside
    /\ UNCHANGED <<config, op, mode, round_num, total_duration, schedule,
                   team_game_counts, remaining_matches, rounds_needed,
                   single_round>>

\* a caller computes get_time_based_stats again on the returned schedule
\* and counters
GetTimeBasedStats ==
    /\ op = "done"
    /\ mode = "time"
    /\ "error" \notin DOMAIN stats
    /\ stats_calls < MaxStatsCalls
    /\ stats' = get_time_based_stats(schedule, team_game_counts, total_duration)
    /\ stats_calls' = stats_calls + 1
    /\ UNCHANGED aside
    /\ UNCHANGED <<config, op, mode, round_num, total_duration, schedule,
                   team_game_counts, remaining_matches, rounds_needed,
                   single_round>>

Next ==
    \/ \E total_duration_minutes \in Durations :
           CreateTimeBasedSchedule(total_duration_minutes)
    \/ TimeRound
    \/ TimeReturn
    \/ CreateRoundRobinSchedule
    \/ RoundRobinRound
    \/ RoundRobinReturn
    \/ CreateSingleRoundDistribution
    \/ GetTeamParticipationStats
    \/ GetTimeBasedStats

Spec == Init /\ [][Next]_vars

(***************************************************************************)
(* The time-budgeted mode alone, on the rosters of more than MaxTeams and  *)
(* up to MaxTimeTeams teams and up to MaxTimeCourts courts.                *)
(***************************************************************************)
TimeRosters ==
    UNION {{[i \in 1..n |-> i], [i \in 1..n |-> n + 1 - i]} :
               n \in (MaxTeams + 1)..MaxTimeTeams}

InitTime ==
    /\ teams \in TimeRosters
    /\ num_courts \in 1..MaxTimeCourts
    /\ players_per_team \in 1..MaxPlayers
    /\ op = "idle"
    /\ mode = "none"
    /\ round_num = 0
    /\ total_duration = 0
    /\ schedule = <<>>
    /\ team_game_counts = <<>>
    /\ remaining_matches = <<>>
    /\ rounds_needed = 0
    /\ single_round = <<>>
    /\ stats = NoStats
    /\ stats_calls = 0
    /\ calls = 0
    /\ returned = <<>>
    /\ time_round = <<>>
    /\ db_matches = <<>>
    /\ db_team_stats = <<>>

NextTime ==
    \/ \E total_duration_minutes \in Durations :
           CreateTimeBasedSchedule(total_duration_minutes)
    \/ TimeRound
    \/ TimeReturn
    \/ GetTimeBasedStats

SpecTime == InitTime /\ [][NextTime]_vars

(***************************************************************************)
(* Several calls on one scheduler object.  When a call has returned, the   *)
(* caller keeps what it returned (the first time it made that call) and    *)
(* makes the next call; the locals of the returned call are gone.  The     *)
(* attributes of the object (config) are all that a later call can see of  *)
(* an earlier one.                                                         *)
(***************************************************************************)
TwiceRosters ==
    UNION {{[i \in 1..n |-> i], [i \in 1..n |-> n + 1 - i]} :
               n \in 0..(MaxTeams - 2)}

\* budgets of the calls: too short for a round, and three rounds
TwiceDurations == {15, 60}

\* values of the players_per_team slider that give the caps 1 and 2
TwicePlayers == {2, 4}

InitTwice ==
    /\ teams \in TwiceRosters
    /\ num_courts \in 1..MaxCourts
    /\ players_per_team \in TwicePlayers
    /\ op = "idle"
    /\ mode = "none"
    /\ round_num = 0
    /\ total_duration = 0
    /\ schedule = <<>>
    /\ team_game_counts = <<>>
    /\ remaining_matches = <<>>
    /\ rounds_needed = 0
    /\ single_round = <<>>
    /\ stats = NoStats
    /\ stats_calls = 0
    /\ calls = 0
    /\ returned = <<>>
    /\ time_round = <<>>
    /\ db_matches = <<>>
    /\ db_team_stats = <<>>

\* the call that has returned, with its arguments
CallKey == <<mode, total_duration>>

\* what the call returned: (schedule, stats) of create_time_based_schedule,
\* the list of create_single_round_distribution; of a round-robin schedule,
\* which depends on the shuffle, only the number of rounds is kept
CallResult ==
    IF mode = "time" THEN [schedule |-> schedule, stats |-> stats]
    ELSE IF mode = "single" THEN [matches |-> single_round]
    ELSE [rounds |-> Len(schedule)]

\* the caller takes the result and goes on to its next call
NextCall ==
    /\ op = "done"
    /\ calls + 1 < MaxCalls
    /\ calls' = calls + 1
    /\ returned' = IF CallKey \in DOMAIN returned THEN returned
                   ELSE (CallKey :> CallResult) @@ returned
    /\ op' = "idle"
    /\ mode' = "none"
    /\ round_num' = 0
    /\ total_duration' = 0
    /\ schedule' = <<>>
    /\ team_game_counts' = <<>>
    /\ remaining_matches' = <<>>
    /\ rounds_needed' = 0
    /\ single_round' = <<>>
    /\ stats' = NoStats
    /\ UNCHANGED <<config, stats_calls, time_round, db_matches, db_team_stats>>

NextTwice ==
    \/ \E total_duration_minutes \in TwiceDurations :
           CreateTimeBasedSchedule(total_duration_minutes)
    \/ TimeRound
    \/ TimeReturn
    \/ CreateRoundRobinSchedule
    \/ RoundRobinRound
    \/ RoundRobinReturn
    \/ CreateSingleRoundDistribution
    \/ NextCall

SpecTwice == InitTwice /\ [][NextTwice]_vars

(***************************************************************************)
(* create_optimal_time_round called on its own: the roster and the         *)
(* argument current_counts (held in team_game_counts) are drawn from       *)
(* bounded sets, the list it returns is kept in time_round.  A roster may  *)
(* name a team twice here.                                                 *)
(***************************************************************************)
RepeatedNameRosters == {<<1, 1>>, <<1, 2, 1>>, <<1, 2, 2, 1>>}

RoundRosters ==
    {[i \in 1..n |-> i] : n \in 0..(MaxTeams - 1)} \cup RepeatedNameRosters

InitRound ==
    /\ teams \in RoundRosters
    /\ num_courts \in 1..MaxCourts
    /\ players_per_team \in 1..MaxPlayers
    /\ team_game_counts \in [Range(teams) -> 0..MaxCount]
    /\ op = "round"
    /\ mode = "round"
    /\ round_num = 1
    /\ total_duration = 0
    /\ schedule = <<>>
    /\ remaining_matches = <<>>
    /\ rounds_needed = 0
    /\ single_round = <<>>
    /\ stats = NoStats
    /\ stats_calls = 0
    /\ calls = 0
    /\ returned = <<>>
    /\ time_round = <<>>
    /\ db_matches = <<>>
    /\ db_team_stats = <<>>

\* create_optimal_time_round(current_counts, round_num), lines 340-373
CreateOptimalTimeRound ==
    /\ op = "round"
    /\ time_round' = create_optimal_time_round(team_game_counts)
    /\ op' = "done"
    /\ UNCHANGED <<config, mode, round_num, total_duration, schedule,
                   team_game_counts, remaining_matches, rounds_needed,
                   single_round, stats, stats_calls, calls, returned,
                   db_matches, db_team_stats>>

NextRound == CreateOptimalTimeRound

SpecRound == InitRound /\ [][NextRound]_vars

(***************************************************************************)
(* TennisDatabase, lines 77-129 and 189-259.  One tournament: the table    *)
(* team_stats is a function from team_name to its row (tournament_id and   *)
(* team_name are UNIQUE together), the table matches a sequence of rows    *)
(* whose index is the id.  The form creates the tournament, constructs a   *)
(* scheduler, makes the scheduling call and saves the schedule (lines      *)
(* 1036-1099); the roster is what the text area holds, so a name may       *)
(* occur twice in it (line 887), and it has two names or more (line 1019). *)
(***************************************************************************)
DbRosters ==
    {[i \in 1..n |-> i] : n \in 2..MaxTeams} \cup RepeatedNameRosters

\* default of players_per_team (line 297)
DbPlayers == {4}

\* the scores entered with a result (number_input, lines 1215-1233)
ScorePairs == {<<0, 0>>, <<2, 1>>}

InitDb ==
    /\ teams \in DbRosters
    /\ num_courts \in 1..MaxCourts
    /\ players_per_team \in DbPlayers
    /\ op = "idle"
    /\ mode = "none"
    /\ round_num = 0
    /\ total_duration = 0
    /\ schedule = <<>>
    /\ team_game_counts = <<>>
    /\ remaining_matches = <<>>
    /\ rounds_needed = 0
    /\ single_round = <<>>
    /\ stats = NoStats
    /\ stats_calls = 0
    /\ calls = 0
    /\ returned = <<>>
    /\ time_round = <<>>
    /\ db_matches = <<>>
    /\ db_team_stats = <<>>

\* lines 93-96: the row inserted for a team
InitialTeamStats ==
    [matches_played |-> 0, matches_won |-> 0, matches_lost |-> 0,
     points_for |-> 0, points_against |-> 0, ranking_points |-> 0]

\* create_tournament, lines 77-100: INSERT OR REPLACE leaves one row per name
CreateTournament ==
    /\ op = "idle"
    /\ db_team_stats = <<>>
    /\ db_team_stats' = [t \in Range(teams) |-> InitialTeamStats]
    /\ UNCHANGED <<config, op, mode, round_num, total_duration, schedule,
                   team_game_counts, remaining_matches, rounds_needed,
                   single_round, stats, stats_calls, calls, returned,
                   time_round, db_matches>>

\* save_matches, lines 110-126: the rows of round number r
RoundRows(round_data, r) ==
    LET timed == mode = "time"
        matches == IF timed THEN round_data.matches ELSE round_data
        start_time == IF timed THEN round_data.start_time ELSE (r - 1) * 20
        end_time == IF timed THEN round_data.end_time ELSE start_time + 15
    IN [court_num \in 1..Len(matches) |->
           [round_number |-> r,
            court_number |-> court_num,
            team1 |-> matches[court_num][1],
            team2 |-> matches[court_num][2],
            winner |-> NoWinner,
            team1_score |-> 0,
            team2_score |-> 0,
            start_time_minutes |-> start_time,
            end_time_minutes |-> end_time]]

RECURSIVE ScheduleRows(_, _)
ScheduleRows(sched, r) ==
    IF r > Len(sched) THEN <<>>
    ELSE RoundRows(sched[r], r) \o ScheduleRows(sched, r + 1)

\* the schedule the form passes to save_matches (lines 1045, 1074, 1099)
SavedSchedule == IF mode = "single" THEN <<single_round>> ELSE schedule

\* save_matches, lines 102-129
SaveMatches ==
    /\ op = "done"
    /\ "error" \notin DOMAIN stats
    /\ db_team_stats # <<>>
    /\ db_matches = <<>>
    /\ db_matches' = ScheduleRows(SavedSchedule, 1)
    /\ UNCHANGED <<config, op, mode, round_num, total_duration, schedule,
                   team_game_counts, remaining_matches, rounds_needed,
                   single_round, stats, stats_calls, calls, returned,
                   time_round, db_team_stats>>

\* _update_team_stats, lines 216-236 (team1) and 239-259 (team2): the row
\* of one team is read and written back
UpdatedTeamStats(table, team, other, winner, score, other_score) ==
    IF team \notin DOMAIN table THEN table
    ELSE [table EXCEPT ![team] =
             [matches_played |-> @.matches_played + 1,
              matches_won |-> @.matches_won + (IF winner = team THEN 1 ELSE 0),
              matches_lost |-> @.matches_lost + (IF winner = other THEN 1 ELSE 0),
              points_for |-> @.points_for + score,
              points_against |-> @.points_against + other_score,
              ranking_points |-> @.ranking_points
                  + (IF winner = team THEN 3 ELSE IF winner = Draw THEN 1 ELSE 0)]]

\* _update_team_stats, lines 213-259: team 1, then team 2 on the table
\* that the update of team 1 left
update_team_stats(table, team1, team2, winner, team1_score, team2_score) ==
    UpdatedTeamStats(
        UpdatedTeamStats(table, team1, team2, winner, team1_score, team2_score),
        team2, team1, winner, team2_score, team1_score)

\* the number of update_match_result calls made so far: each adds 2 to the
\* matches_played of the table
RECURSIVE PlayedTotal(_, _)
PlayedTotal(table, names) ==
    IF names = {} THEN 0
    ELSE LET t == CHOOSE x \in names : TRUE
         IN table[t].matches_played + PlayedTotal(table, names \ {t})

\* update_match_result, lines 189-211
UpdateMatchResult(match_id, winner, team1_score, team2_score) ==
    /\ match_id \in 1..Len(db_matches)
    /\ PlayedTotal(db_team_stats, DOMAIN db_team_stats) < 2 * MaxUpdates
    /\ db_matches' = [db_matches EXCEPT ![match_id] =
                          [@ EXCEPT !.winner = winner,
                                    !.team1_score = team1_score,
                                    !.team2_score = team2_score]]
    /\ db_team_stats' = update_team_stats(db_team_stats,
                                          db_matches[match_id].team1,
                                          db_matches[match_id].team2,
                                          winner, team1_score, team2_score)
    /\ UNCHANGED <<config, op, mode, round_num, total_duration, schedule,
                   team_game_counts, remaining_matches, rounds_needed,
                   single_round, stats, stats_calls, calls, returned,
                   time_round>>

\* enter_match_results, lines 1238-1258: the three buttons of a match
EnterMatchResult ==
    \E match_id \in 1..Len(db_matches) : \E scores \in ScorePairs :
        \E winner \in {db_matches[match_id].team1, Draw, db_matches[match_id].team2} :
            UpdateMatchResult(match_id, winner, scores[1], scores[2])

NextDb ==
    \/ CreateTournament
    \/ CreateSingleRoundDistribution
    \/ SaveMatches
    \/ EnterMatchResult

SpecDb == InitDb /\ [][NextDb]_vars

(***************************************************************************)
(* Vocabulary of the properties.                                           *)
(***************************************************************************)
\* the match lists of the rounds built so far by the call in progress
Rounds ==
    IF mode = "time" THEN [i \in 1..Len(schedule) |-> schedule[i].matches]
    ELSE IF mode = "rr" THEN schedule
    ELSE IF mode = "single" THEN <<single_round>>
    ELSE <<>>

\* number of matches of the round that team t takes part in
Appearances(t, round) ==
    Cardinality({i \in 1..Len(round) : t = round[i][1] \/ t = round[i][2]})

RoundsRespectCap ==
    \A r \in 1..Len(Rounds) : \A t \in Range(teams) :
        Appearances(t, Rounds[r]) <= players_per_team \div 2

\* N(N-1)/2
PairCount == (Len(teams) * (Len(teams) - 1)) \div 2

Returned(m) == mode = m /\ op = "done"

(***************************************************************************)
(* C1: in time-budgeted mode no team appears in more than                  *)
(* floor(playersPerTeam / 2) matches of any round, at any point of the     *)
(* construction and in the returned schedule.                              *)
(***************************************************************************)
C1_TimeRoundsRespectCap == mode = "time" => RoundsRespectCap

\* a returned time-budgeted schedule with a round left under-filled because
\* a team of a roster of three or more is at its cap
C1_Witness ==
    /\ Returned("time")
    /\ Len(teams) >= 3
    /\ \E r \in 1..Len(Rounds) :
          /\ Len(Rounds[r]) < num_courts
          /\ \E t \in Range(teams) :
                /\ Appearances(t, Rounds[r]) = players_per_team \div 2
                /\ Appearances(t, Rounds[r]) >= 1

(***************************************************************************)
(* C2: in round-robin mode no team appears in more than                    *)
(* floor(playersPerTeam / 2) matches of any round, fill pass included.     *)
(* The code does not keep this: the first pass admits every team once      *)
(* whatever the cap, and fill_remaining_courts never looks at the cap.     *)
(***************************************************************************)
C2_RoundRobinRoundsRespectCap == mode = "rr" => RoundsRespectCap

(***************************************************************************)
(* C3: in single-round mode no team appears in more than                   *)
(* floor(playersPerTeam / 2) matches of the returned round, supplement     *)
(* step included.  The code does not keep this: neither the adjacent       *)
(* pairing nor the supplement loop looks at the cap.                       *)
(***************************************************************************)
C3_SingleRoundRespectsCap == Returned("single") => RoundsRespectCap

(***************************************************************************)
(* C4: in all three modes every round holds at most courtCapacity matches. *)
(***************************************************************************)
C4_RoundWithinCourts ==
    \A r \in 1..Len(Rounds) : Len(Rounds[r]) <= num_courts

\* a round that is exactly full although the roster has more pairs than courts
C4_Witness ==
    /\ op = "done"
    /\ PairCount > num_courts
    /\ num_courts >= 2
    /\ \E r \in 1..Len(Rounds) : Len(Rounds[r]) = num_courts

(***************************************************************************)
(* C5: when create_round_robin_schedule returns for a roster of N >= 2     *)
(* teams, every unordered pair of teams appears in at least one round.     *)
(***************************************************************************)
PairScheduled(a, b) ==
    \E r \in 1..Len(Rounds) : \E i \in 1..Len(Rounds[r]) :
        {Rounds[r][i][1], Rounds[r][i][2]} = {a, b}

C5_RoundRobinComplete ==
    (Returned("rr") /\ Len(teams) >= 2) =>
        \A i, j \in 1..Len(teams) : i < j => PairScheduled(teams[i], teams[j])

\* scenario B: 3 teams on 1 court, 3 one-match rounds
C5_Witness ==
    /\ Returned("rr")
    /\ Len(teams) = 3
    /\ num_courts = 1
    /\ Len(schedule) = 3
    /\ \A r \in 1..3 : Len(schedule[r]) = 1

(***************************************************************************)
(* C6: round-robin mode returns after exactly ceil((N(N-1)/2) / courts)    *)
(* rounds, the count the tournament form announces; while the loop runs,   *)
(* the rounds built never exceed that count.                               *)
(***************************************************************************)
\* the least k with k * courts >= N(N-1)/2
ExpectedRounds ==
    CHOOSE k \in 0..PairCount :
        /\ k * num_courts >= PairCount
        /\ \A l \in 0..(k - 1) : l * num_courts < PairCount

\* create_new_tournament, lines 979-980: the announced number of rounds
estimated_rounds ==
    LET total_possible_matches == (Len(teams) * (Len(teams) - 1)) \div 2
    IN (total_possible_matches + num_courts - 1) \div num_courts

C6_RoundRobinRoundCount ==
    (mode = "rr" /\ Len(teams) >= 2) =>
        /\ Len(schedule) <= ExpectedRounds
        /\ op = "done" => /\ Len(schedule) = ExpectedRounds
                          /\ Len(schedule) = estimated_rounds

\* a returned schedule whose last round is needed for a remainder
C6_Witness ==
    /\ Returned("rr")
    /\ Len(teams) >= 4
    /\ PairCount % num_courts # 0
    /\ Len(schedule) = (PairCount \div num_courts) + 1

(***************************************************************************)
(* C7: time-budgeted mode with totalMinutes >= 20 returns exactly          *)
(* totalMinutes div 20 rounds, numbered 1, 2, ... in order, round i with   *)
(* start_time = (i-1)*20 and end_time = start_time + 15.                   *)
(***************************************************************************)
C7_TimeRoundStamps ==
    (Returned("time") /\ total_duration >= 20) =>
        /\ Len(schedule) * 20 <= total_duration
        /\ total_duration < (Len(schedule) + 1) * 20
        /\ \A i \in 1..Len(schedule) :
              /\ schedule[i].round = i
              /\ schedule[i].start_time = (i - 1) * 20
              /\ schedule[i].end_time = schedule[i].start_time + 15

\* a budget that is no multiple of 20 and gives three rounds or more
C7_Witness ==
    /\ Returned("time")
    /\ total_duration >= 60
    /\ total_duration % 20 # 0
    /\ Len(schedule) >= 3

(***************************************************************************)
(* C8: for every integer totalMinutes < 20, create_time_based_schedule     *)
(* returns the insufficient-duration error: no round is built and no       *)
(* participation statistics are returned.  The code tests max_rounds == 0, *)
(* which a negative budget (floor division gives -1 or less) passes.       *)
(***************************************************************************)
C8_ShortBudgetIsError ==
    (Returned("time") /\ total_duration < 20) =>
        /\ "error" \in DOMAIN stats
        /\ "team_counts" \notin DOMAIN stats
        /\ schedule = <<>>

(***************************************************************************)
(* C9: for a roster of N >= 2 distinct teams,                              *)
(* generate_all_possible_matches returns exactly N(N-1)/2 pairs, none with *)
(* the same team twice, and no unordered pair twice in either orientation. *)
(***************************************************************************)
C9_AllPairsOnce ==
    Len(teams) >= 2 =>
        LET all_matches == generate_all_possible_matches
        IN /\ Len(all_matches) * 2 = Len(teams) * (Len(teams) - 1)
           /\ \A i \in 1..Len(all_matches) :
                 /\ all_matches[i][1] # all_matches[i][2]
                 /\ {all_matches[i][1], all_matches[i][2]} \subseteq Range(teams)
           /\ \A i, j \in 1..Len(all_matches) :
                 i # j => {all_matches[i][1], all_matches[i][2]}
                          # {all_matches[j][1], all_matches[j][2]}

\* the pool of a round-robin call, just generated for a roster of 4 or more
C9_Witness ==
    /\ mode = "rr"
    /\ round_num = 1
    /\ Len(teams) >= 4
    /\ Len(remaining_matches) = Len(generate_all_possible_matches)
    /\ Range(remaining_matches) = Range(generate_all_possible_matches)

(***************************************************************************)
(* C10: single-round mode with courtCapacity <= floor(N/2) returns exactly *)
(* courtCapacity matches with no team in more than one of them; when       *)
(* N = 2 * courtCapacity every team is in exactly one.                     *)
(***************************************************************************)
C10_SingleRoundDisjoint ==
    (Returned("single") /\ num_courts <= Len(teams) \div 2) =>
        /\ Len(single_round) = num_courts
        /\ \A t \in Range(teams) : Appearances(t, single_round) <= 1
        /\ Len(teams) = 2 * num_courts =>
               \A t \in Range(teams) : Appearances(t, single_round) = 1

\* scenario A: 4 teams, 2 courts, 4 players per team
C10_Witness ==
    /\ Returned("single")
    /\ Len(teams) = 4
    /\ num_courts = 2
    /\ players_per_team = 4
    /\ Len(single_round) = 2

(***************************************************************************)
(* Vocabulary of the properties on participation counts.                   *)
(***************************************************************************)
\* number of matches of team t in the first n rounds built
RECURSIVE PlayedIn(_, _)
PlayedIn(t, n) ==
    IF n = 0 THEN 0 ELSE Appearances(t, Rounds[n]) + PlayedIn(t, n - 1)

Played(t) == PlayedIn(t, Len(Rounds))

\* largest minus smallest number of matches played over the roster
Spread ==
    CHOOSE d \in 0..(Len(Rounds) * num_courts) :
        \E hi, lo \in Range(teams) :
            /\ d = Played(hi) - Played(lo)
            /\ \A t \in Range(teams) : Played(lo) <= Played(t) /\ Played(t) <= Played(hi)

(***************************************************************************)
(* C11: scenario C: 8 teams, 4 courts, 4 players per team and 100 minutes  *)
(* give exactly 5 rounds, and the final participation counts differ by at  *)
(* most 2 (in the schedule and in the returned statistics).                *)
(***************************************************************************)
ScenarioC ==
    /\ Returned("time")
    /\ Len(teams) = 8
    /\ num_courts = 4
    /\ players_per_team = 4
    /\ total_duration = 100

C11_ScenarioC ==
    ScenarioC =>
        /\ Len(schedule) = 5
        /\ Spread <= 2
        /\ stats.total_rounds = 5
        /\ stats.max_games - stats.min_games <= 2
        /\ stats.games_difference <= 2

\* scenario C has returned: 5 full rounds, every team has played
C11_Witness ==
    /\ ScenarioC
    /\ \A r \in 1..Len(Rounds) : Len(Rounds[r]) = 4
    /\ \A t \in Range(teams) : Played(t) >= 4
    /\ \E t \in Range(teams) : Played(t) = 6

(***************************************************************************)
(* C12: the statistics are pure.  A statistics call on a returned schedule *)
(* changes neither the schedule, the participation counter nor any field   *)
(* of the scheduler, and when statistics of the same schedule were         *)
(* computed before, the call yields the identical result.                  *)
(***************************************************************************)
StatsCallStep == stats_calls' = stats_calls + 1

\* the statistics held before the step were computed by the same function
\* on the same schedule
StatsComputedBefore == stats_calls >= 1 \/ mode = "time"

C13_ParticipationMinMax ==
    (op = "done" /\ mode \in {"rr", "single"} /\ stats_calls >= 1 /\ teams # <<>>) =>
        /\ \A t \in Range(teams) :
               stats.min_games <= Played(t) /\ Played(t) <= stats.max_games
        /\ \E t \in Range(teams) : Played(t) = stats.min_games
        /\ \E t \in Range(teams) : Played(t) = stats.max_games
        /\ stats.games_difference = stats.max_games - stats.min_games

(***************************************************************************)
(* C14: in the time-budgeted statistics for totalMinutes >= 20,            *)
(* actual_duration = 20 * total_rounds, actual_duration <= planned_duration *)
(* and planned_duration - actual_duration < 20, so the efficiency          *)
(* actual / planned * 100 is at most 100.                                  *)
(***************************************************************************)
C14_TimeEfficiency ==
    (Returned("time") /\ total_duration >= 20) =>
        /\ stats.total_rounds = Len(schedule)
        /\ stats.planned_duration = total_duration
        /\ stats.actual_duration = 20 * stats.total_rounds
        /\ stats.actual_duration <= stats.planned_duration
        /\ stats.planned_duration - stats.actual_duration < 20
        /\ stats.efficiency[2] > 0
        /\ stats.efficiency[1] * stats.planned_duration
               = stats.actual_duration * 100 * stats.efficiency[2]
        /\ stats.efficiency[1] <= 100 * stats.efficiency[2]

\* a budget that leaves 19 minutes unused: the efficiency is below 100
C14_Witness ==
    /\ Returned("time")
    /\ total_duration >= 40
    /\ stats.planned_duration - stats.actual_duration = 19
    /\ stats.efficiency[1] < 100 * stats.efficiency[2]

(***************************************************************************)
(* C15: during the time-budgeted construction no participation counter     *)
(* ever decreases, and after each round is appended every counter equals   *)
(* the number of matches of that team in the rounds built so far; the      *)
(* returned team_counts are these final values and sum to twice            *)
(* total_matches.                                                          *)
(***************************************************************************)
RECURSIVE SumPlayed(_)
SumPlayed(S) ==
    IF S = {} THEN 0
    ELSE LET t == CHOOSE x \in S : TRUE IN Played(t) + SumPlayed(S \ {t})

RECURSIVE MatchesIn(_)
MatchesIn(n) == IF n = 0 THEN 0 ELSE Len(Rounds[n]) + MatchesIn(n - 1)

CountersMatchSchedule ==
    (mode = "time" /\ "error" \notin DOMAIN stats) =>
        /\ DOMAIN team_game_counts = Range(teams)
        /\ \A t \in Range(teams) : team_game_counts[t] = Played(t)
        /\ op = "done" =>
              /\ stats.team_counts = team_game_counts
              /\ stats.total_matches = MatchesIn(Len(Rounds))
              /\ SumPlayed(Range(teams)) = 2 * stats.total_matches

C15_CountersTrackSchedule ==
    /\ []CountersMatchSchedule
    /\ [][op = "time" =>
            \A t \in Range(teams) : team_game_counts'[t] >= team_game_counts[t]]_vars

\* a returned schedule of three rounds or more in which the teams have
\* played different numbers of matches
C15_Witness ==
    /\ Returned("time")
    /\ Len(schedule) >= 3
    /\ Len(teams) >= 3
    /\ \E t, u \in Range(teams) :
          /\ stats.team_counts[t] >= 3
          /\ stats.team_counts[u] < stats.team_counts[t]
          /\ stats.team_counts[u] >= 1

(***************************************************************************)
(* C16: for a roster of fewer than 2 teams every mode returns an empty     *)
(* schedule: round robin and time-budgeted (totalMinutes >= 20) zero       *)
(* rounds, single round no matches.  The time-budgeted loop has no guard   *)
(* on the roster size and appends totalMinutes div 20 rounds without       *)
(* matches.                                                                *)
(***************************************************************************)
C16_SmallRosterEmptySchedule ==
    (op = "done" /\ Len(teams) < 2) =>
        /\ mode = "rr" => schedule = <<>>
        /\ (mode = "time" /\ total_duration >= 20) => schedule = <<>>
        /\ mode = "single" => single_round = <<>>

(***************************************************************************)
(* C17: single-round mode schedules exactly min(courtCapacity, floor(N/2)) *)
(* matches for N >= 2 teams and 1..10 courts, the number the form          *)
(* announces.  The supplement step adds matches beyond floor(N/2) when     *)
(* courts are left.                                                        *)
(***************************************************************************)
C17_SingleRoundAnnouncedCount ==
    (Returned("single") /\ Len(teams) >= 2 /\ num_courts \in 1..10) =>
        /\ Len(single_round) = max_matches_single
        /\ Len(single_round) <= num_courts
        /\ Len(single_round) <= Len(teams) \div 2
        /\ Len(single_round) = num_courts \/ Len(single_round) = Len(teams) \div 2

(***************************************************************************)
(* C18: as the form's help text says, a team plays on at most 2 courts at  *)
(* the same time: for 2..8 players per team and 1..10 courts, in every     *)
(* mode, no team is in more than 2 matches of a round.  The cap is         *)
(* players_per_team // 2, which is 3 or 4 for 6..8 players, and the round- *)
(* robin fill and the single-round supplement have no cap at all.          *)
(***************************************************************************)
C18_AtMostTwoCourts ==
    (players_per_team \in 2..8 /\ num_courts \in 1..10) =>
        \A r \in 1..Len(Rounds) : \A t \in Range(teams) :
            Appearances(t, Rounds[r]) <= 2

(***************************************************************************)
(* C19: in every time-budgeted round the matches are listed in non-        *)
(* decreasing order of the combined participation count of their two       *)
(* teams, taken at the start of the round; with N >= 2 teams and           *)
(* playersPerTeam >= 2 the first match has the least combined count of all *)
(* pairs and includes a team with the least participation count.           *)
(***************************************************************************)
\* count(a) + count(b) at the start of round r
CombinedBefore(m, r) == PlayedIn(m[1], r - 1) + PlayedIn(m[2], r - 1)

C19_TimeRoundOrder ==
    mode = "time" =>
        \A r \in 1..Len(Rounds) :
            /\ \A i \in 1..(Len(Rounds[r]) - 1) :
                   CombinedBefore(Rounds[r][i], r) <= CombinedBefore(Rounds[r][i + 1], r)
            /\ (Len(teams) >= 2 /\ players_per_team >= 2) =>
                  /\ Len(Rounds[r]) >= 1
                  /\ \A a, b \in Range(teams) :
                         a # b => CombinedBefore(Rounds[r][1], r)
                                      <= PlayedIn(a, r - 1) + PlayedIn(b, r - 1)
                  /\ \E t \in {Rounds[r][1][1], Rounds[r][1][2]} :
                         \A u \in Range(teams) : PlayedIn(t, r - 1) <= PlayedIn(u, r - 1)

\* a later round whose matches have strictly increasing combined counts
\* and whose first match is not the first pair of the roster
C19_Witness ==
    /\ Returned("time")
    /\ \E r \in 2..Len(Rounds) :
          /\ Len(Rounds[r]) >= 2
          /\ CombinedBefore(Rounds[r][1], r) < CombinedBefore(Rounds[r][2], r)
          /\ {Rounds[r][1][1], Rounds[r][1][2]} # {teams[1], teams[2]}

(***************************************************************************)
(* C20: a time-budgeted round with fewer than courtCapacity matches is     *)
(* maximal: every unordered pair of distinct teams that is not in the      *)
(* round has a member at the within-round cap floor(playersPerTeam / 2).   *)
(***************************************************************************)
PairInRound(a, b, round) ==
    \E i \in 1..Len(round) : {round[i][1], round[i][2]} = {a, b}

C20_ShortTimeRoundMaximal ==
    mode = "time" =>
        \A r \in 1..Len(Rounds) :
            Len(Rounds[r]) < num_courts =>
                \A a, b \in Range(teams) :
                    (a # b /\ ~PairInRound(a, b, Rounds[r])) =>
                        \/ Appearances(a, Rounds[r]) = players_per_team \div 2
                        \/ Appearances(b, Rounds[r]) = players_per_team \div 2

\* an under-filled round that holds matches and leaves a pair out
C20_Witness ==
    /\ Returned("time")
    /\ players_per_team >= 2
    /\ \E r \in 1..Len(Rounds) :
          /\ Len(Rounds[r]) < num_courts
          /\ Len(Rounds[r]) >= 2
          /\ \E a, b \in Range(teams) : a # b /\ ~PairInRound(a, b, Rounds[r])

(***************************************************************************)
(* Vocabulary of the properties on pairs.                                  *)
(***************************************************************************)
Min(a, b) == IF a <= b THEN a ELSE b

SamePair(m1, m2) == {m1[1], m1[2]} = {m2[1], m2[2]}

\* number of matches of the rounds built so far that pair a with b
PairOccurrences(a, b) ==
    Cardinality({p \in UNION {{<<r, i>> : i \in 1..Len(Rounds[r])} :
                                  r \in 1..Len(Rounds)} :
                     {Rounds[p[1]][p[2]][1], Rounds[p[1]][p[2]][2]} = {a, b}})

\* a team is in two matches of some round: a fill or supplement step acted
SomeTeamTwiceInARound ==
    \E r \in 1..Len(Rounds) : \E t \in Range(teams) : Appearances(t, Rounds[r]) >= 2

(***************************************************************************)
(* C21: in all three modes, for a roster of distinct teams, no round holds *)
(* the same unordered pair of teams twice, neither as the same tuple nor   *)
(* in both orientations, the matches added by a fill or supplement step    *)
(* included.                                                               *)
(***************************************************************************)
C21_NoPairTwiceInARound ==
    \A r \in 1..Len(Rounds) : \A i, j \in 1..Len(Rounds[r]) :
        i # j => ~SamePair(Rounds[r][i], Rounds[r][j])

\* a round-robin round of three matches to which the fill pass added one
C21_Witness ==
    /\ Returned("rr")
    /\ \E r \in 1..Len(Rounds) :
          /\ Len(Rounds[r]) >= 3
          /\ \E t \in Range(teams) : Appearances(t, Rounds[r]) >= 2

(***************************************************************************)
(* C22: round robin consumes the pool without replacement.  While the      *)
(* schedule is built every unordered pair is either still in the pool      *)
(* (once) or scheduled (once), never both; the returned schedule holds     *)
(* every pair exactly once, N(N-1)/2 matches in all, and every team plays  *)
(* exactly N-1 matches.                                                    *)
(***************************************************************************)
InPool(a, b) ==
    Cardinality({i \in 1..Len(remaining_matches) :
                     {remaining_matches[i][1], remaining_matches[i][2]} = {a, b}})

C22_RoundRobinExactlyOnce ==
    mode = "rr" =>
        /\ \A i, j \in 1..Len(teams) :
               i < j => InPool(teams[i], teams[j])
                            + PairOccurrences(teams[i], teams[j]) = 1
        /\ op = "done" =>
              /\ \A i, j \in 1..Len(teams) :
                     i < j => PairOccurrences(teams[i], teams[j]) = 1
              /\ MatchesIn(Len(Rounds)) * 2 = Len(teams) * (Len(teams) - 1)
              /\ \A t \in Range(teams) : Played(t) = Len(teams) - 1

\* a returned schedule of several rounds for four teams or more in which
\* the fill pass placed a pair
C22_Witness ==
    /\ Returned("rr")
    /\ Len(teams) >= 4
    /\ Len(schedule) >= 3
    /\ SomeTeamTwiceInARound

(***************************************************************************)
(* C23: the single round for the roster t0, t1, ... starts with the        *)
(* min(courtCapacity, floor(N/2)) matches (t0,t1), (t2,t3), ... in list    *)
(* order; further matches are appended only when courts are left, and      *)
(* they are the pairs not already in the round, in the order of the        *)
(* combination enumeration, until the courts are full or every pair is     *)
(* used.                                                                   *)
(***************************************************************************)
\* position of a team in the roster
Pos(t) == CHOOSE i \in 1..Len(teams) : teams[i] = t

\* m1 comes before m2 in the enumeration of the 2-combinations of the roster
EnumeratedBefore(m1, m2) ==
    \/ Pos(m1[1]) < Pos(m2[1])
    \/ Pos(m1[1]) = Pos(m2[1]) /\ Pos(m1[2]) < Pos(m2[2])

AdjacentCount == Min(num_courts, Len(teams) \div 2)

C23_SingleRoundOrder ==
    Returned("single") =>
        LET k == AdjacentCount
            n == Len(single_round)
        IN /\ n >= k
           /\ \A i \in 1..k : single_round[i] = <<teams[2 * i - 1], teams[2 * i]>>
           /\ n > k => k < num_courts
           /\ n = (IF Len(teams) < 2 THEN 0 ELSE Min(num_courts, PairCount))
           /\ \A i \in (k + 1)..n :
                 /\ Pos(single_round[i][1]) < Pos(single_round[i][2])
                 /\ \A j \in 1..k : single_round[j] # single_round[i]
                 /\ i < n => EnumeratedBefore(single_round[i], single_round[i + 1])
                 /\ \A a, b \in 1..Len(teams) :
                        (a < b /\ EnumeratedBefore(<<teams[a], teams[b]>>, single_round[i]))
                            => \E j \in 1..i : single_round[j] = <<teams[a], teams[b]>>

\* two adjacent pairs followed by a supplemented match
C23_Witness ==
    /\ Returned("single")
    /\ AdjacentCount = 2
    /\ Len(single_round) = 3
    /\ single_round[3] = <<teams[1], teams[3]>>

(***************************************************************************)
(* C25: every round-robin round holds exactly min(courtCapacity, size of   *)
(* the pool at the start of that round) matches and takes them out of the  *)
(* pool; every round but the last is full, the last one holds the          *)
(* remainder, and the pool is empty when the schedule is returned.         *)
(***************************************************************************)
RoundRobinRoundStep == op = "rr" /\ Len(schedule') = Len(schedule) + 1

RoundRobinRoundsFull ==
    mode = "rr" =>
        /\ \A r \in 1..(Len(schedule) - 1) : Len(schedule[r]) = num_courts
        /\ op = "done" =>
              /\ remaining_matches = <<>>
              /\ Len(schedule) >= 1 =>
                     Len(schedule[Len(schedule)])
                         = PairCount - (Len(schedule) - 1) * num_courts

C25_RoundRobinRoundSizes ==
    /\ []RoundRobinRoundsFull
    /\ [][RoundRobinRoundStep =>
            /\ Len(schedule'[Len(schedule')])
                   = Min(num_courts, Len(remaining_matches))
            /\ Len(remaining_matches')
                   = Len(remaining_matches) - Len(schedule'[Len(schedule')])]_vars

\* full rounds followed by a last round that holds a remainder
C25_Witness ==
    /\ Returned("rr")
    /\ Len(schedule) >= 2
    /\ num_courts >= 2
    /\ Len(schedule[Len(schedule)]) < num_courts
    /\ Len(schedule[Len(schedule)]) >= 1

(***************************************************************************)
(* C26: no starvation in time-budgeted mode.  For N >= 2 teams and         *)
(* playersPerTeam >= 2, the first match of round k pairs two teams that    *)
(* have not played while two such teams are left, so after k rounds at     *)
(* least min(N, 2k) teams have played, and every team has played once      *)
(* ceil(N/2) rounds are built.                                             *)
(***************************************************************************)
\* teams with a match in the first k rounds
PlayedWithin(k) == {t \in Range(teams) : PlayedIn(t, k) >= 1}

C26_NoStarvation ==
    (mode = "time" /\ Len(teams) >= 2 /\ players_per_team >= 2) =>
        /\ \A k \in 1..Len(Rounds) :
               Cardinality(PlayedWithin(k)) >= Min(Len(teams), 2 * k)
        /\ Len(Rounds) * 2 >= Len(teams) =>
               \A t \in Range(teams) : Played(t) >= 1

\* five teams on one court: the last team waits until the third round
C26_Witness ==
    /\ Returned("time")
    /\ Len(teams) = 5
    /\ num_courts = 1
    /\ players_per_team >= 2
    /\ Len(Rounds) >= 3
    /\ \E t \in Range(teams) : PlayedIn(t, 2) = 0 /\ PlayedIn(t, 3) = 1

(***************************************************************************)
(* C27: for totalMinutes >= 20 the time-budgeted rounds do not overlap and *)
(* fit in the budget: round i+1 starts exactly 20 minutes after round i    *)
(* starts and at least 5 minutes after round i ends, and the last round    *)
(* ends no later than totalMinutes.                                        *)
(***************************************************************************)
C27_RoundsFitBudget ==
    (Returned("time") /\ total_duration >= 20) =>
        /\ Len(schedule) >= 1
        /\ \A i \in 1..(Len(schedule) - 1) :
              /\ schedule[i + 1].start_time = schedule[i].start_time + 20
              /\ schedule[i + 1].start_time >= schedule[i].end_time + 5
        /\ \A i \in 1..Len(schedule) : schedule[i].end_time <= total_duration

\* a budget that is used up to its last 5 minutes by three rounds or more
C27_Witness ==
    /\ Returned("time")
    /\ Len(schedule) >= 3
    /\ schedule[Len(schedule)].end_time + 5 = total_duration

(***************************************************************************)
(* C30: the time-budgeted fill pass never adds a match.  For every roster, *)
(* counter state, courtCapacity and playersPerTeam the round returned by   *)
(* create_optimal_time_round is the round its greedy acceptance loop       *)
(* leaves, both when it is called on its own and for every round of a      *)
(* time-budgeted schedule.                                                 *)
(***************************************************************************)
\* lines 342-366 alone: the round before line 368
GreedyRound(current_counts) ==
    GreedyTimeLoop(PossibleMatches(current_counts), 1,
                   [matches |-> <<>>, used |-> ZeroCounter]).matches

\* the participation counts at the start of round r
CountsBefore(r) == [t \in Range(teams) |-> PlayedIn(t, r - 1)]

C30_FillAddsNothing ==
    /\ (mode = "round" /\ op = "done") =>
           time_round = GreedyRound(team_game_counts)
    /\ mode = "time" =>
           \A r \in 1..Len(schedule) :
               schedule[r].matches = GreedyRound(CountsBefore(r))

\* the greedy loop left courts free, so the fill pass ran, on counts that
\* differ between the teams
C30_Witness ==
    /\ mode = "round"
    /\ op = "done"
    /\ Len(time_round) >= 2
    /\ Len(time_round) < num_courts
    /\ \E t, u \in Range(teams) : team_game_counts[t] < team_game_counts[u]

(***************************************************************************)
(* C24: time-budgeted and single-round scheduling are deterministic and    *)
(* keep no state between invocations.  A call on a scheduler object        *)
(* returns the same schedule and statistics as the first call with the     *)
(* same arguments on that object, whatever calls were made in between, and *)
(* no call changes the roster, the courts or the players per team.  Ties   *)
(* between equally-played teams go by roster order: the first match of a   *)
(* time-budgeted round is (a, b), a the first team of the roster among the *)
(* least played, b the first among the least played of the others.         *)
(***************************************************************************)
\* the first team in roster order, among the teams of S, with the least
\* number of matches in the first k rounds
FirstLeastPlayed(S, k) ==
    CHOOSE t \in S :
        /\ \A u \in S : PlayedIn(t, k) <= PlayedIn(u, k)
        /\ \A u \in S : PlayedIn(u, k) = PlayedIn(t, k) => Pos(t) <= Pos(u)

TiesByRosterOrder ==
    (mode = "time" /\ Len(teams) >= 2 /\ players_per_team >= 2) =>
        \A r \in 1..Len(schedule) :
            LET a == FirstLeastPlayed(Range(teams), r - 1)
                b == FirstLeastPlayed(Range(teams) \ {a}, r - 1)
            IN /\ Len(schedule[r].matches) >= 1
               /\ schedule[r].matches[1] = <<a, b>>

SameAsFirstCall ==
    (op = "done" /\ mode \in {"time", "single"} /\ CallKey \in DOMAIN returned) =>
        returned[CallKey] = CallResult

MatchesOf(t) ==
    {id \in 1..Len(db_matches) : db_matches[id].team1 = t \/ db_matches[id].team2 = t}

\* those of them that have a winner recorded
RecordedMatchesOf(t) == {id \in MatchesOf(t) : db_matches[id].winner # NoWinner}

RosterIsDistinct == \A i, j \in 1..Len(teams) : i # j => teams[i] # teams[j]

RECURSIVE SumField(_, _)
SumField(F, names) ==
    IF names = {} THEN 0
    ELSE LET t == CHOOSE x \in names : TRUE
         IN F[t] + SumField(F, names \ {t})

(***************************************************************************)
(* C28: each match is counted at most once in the team statistics.  After  *)
(* any sequence of update_match_result calls on the matches of a           *)
(* tournament of distinct teams, a result recorded again for a match that  *)
(* has a winner included, matches_played of every team is the number of    *)
(* its matches with a recorded winner and at most the number of matches    *)
(* scheduled for it.  update_match_result does not look at the winner the  *)
(* row already holds and _update_team_stats adds 1 on every call.          *)
(***************************************************************************)
C28_MatchCountedOnce ==
    RosterIsDistinct =>
        \A t \in DOMAIN db_team_stats :
            /\ db_team_stats[t].matches_played = Cardinality(RecordedMatchesOf(t))
            /\ db_team_stats[t].matches_played <= Cardinality(MatchesOf(t))

(***************************************************************************)
(* C29: after any sequence of update_match_result calls whose winner is    *)
(* team1, team2 or 'Draw', every team has matches_won + matches_lost <=    *)
(* matches_played and ranking_points = 3 * matches_won + (matches_played - *)
(* matches_won - matches_lost), and over the teams of the tournament the   *)
(* matches won sum to the matches lost and the points for to the points    *)
(* against.  The form accepts a roster that names a team twice; the team   *)
(* is then scheduled against itself and every result of that match counts  *)
(* as won and as lost.                                                     *)
(***************************************************************************)
C29_TeamStatsConsistent ==
    /\ \A t \in DOMAIN db_team_stats :
          LET row == db_team_stats[t]
          IN /\ row.matches_won + row.matches_lost <= row.matches_played
             /\ row.ranking_points
                    = 3 * row.matches_won
                      + (row.matches_played - row.matches_won - row.matches_lost)
    /\ SumField([t \in DOMAIN db_team_stats |-> db_team_stats[t].matches_won],
                DOMAIN db_team_stats)
           = SumField([t \in DOMAIN db_team_stats |-> db_team_stats[t].matches_lost],
                      DOMAIN db_team_stats)
    /\ SumField([t \in DOMAIN db_team_stats |-> db_team_stats[t].points_for],
                DOMAIN db_team_stats)
           = SumField([t \in DOMAIN db_team_stats |-> db_team_stats[t].points_against],
                      DOMAIN db_team_stats)

====
